---- MODULE Spec2Model ----
(***************************************************************************)
(* Model of the video-processing job pipeline of video_app:                *)
(*   tasks.py          process_video_task, extract_frames_task,            *)
(*                     detect_objects_in_frames_task                       *)
(*   models.py         Video, DetectedObject, ProcessedFrame,              *)
(*                     ProcessingTask                                      *)
(*   yolo_processor.py process_video, extract_frames, get_video_metadata   *)
(*   minio_client.py   MinIOClient.__init__, upload_file                   *)
(*   views.py          VideoUploadView.perform_create                      *)
(*                                                                         *)
(* Every record-store write (Model.objects.create, Model.save) is one      *)
(* atomic step: Django runs in autocommit mode and the tasks open no       *)
(* transaction, so a status poller can observe the store between any two   *)
(* writes.  Each execution keeps its own in-memory copies `video` and      *)
(* `task_record`; save() writes every field of the copy back to the row.   *)
(* Record-store writes, blob-store uploads, file reads and the detector    *)
(* can fail; the number of failures injected in one behaviour is bounded.  *)
(***************************************************************************)
EXTENDS Integers, Sequences, FiniteSets, TLC

\* ---------------------------------------------------------------- bounds
MaxVideos == 1      \* Video rows that can be uploaded
MaxExec == 2        \* executions the dispatcher delivers in all
MaxFrames == 2      \* frames of an uploaded video file
MaxObjs == 1        \* objects the detector finds in one frame
MaxFaults == 1      \* injected failures of store / file / detector calls
MaxInterval == 2    \* frame_interval argument of extract_frames_task
MaxSuffix == 1      \* distinct values of uuid4().hex[:8]
MaxWorkers == 2     \* workers: executions that run at the same time
MaxLen == 6         \* frames of a file given to the processor on its own
MaxStep == 4        \* frame_interval given to the processor on its own

\* ------------------------------------------------------ program constants
NoneInt == -1               \* a null IntegerField
ProcessInterval == 1        \* frame_interval passed by process_video_task
DefaultDetectStep == 30     \* range(0, total_frames, 30)

VideoIds == 1..MaxVideos
ExecSlots == 1..MaxWorkers

\* whether the name cv2 is bound in the module namespace of tasks.py
Cv2Imported == FALSE

TASK_TYPES == {"video_processing", "object_detection", "frame_extraction"}

required_buckets ==
  {"default", "processed-videos", "extracted-frames", "processed-images", "temp"}

\* a video file: the sequence of its frames, each frame being the number of
\* objects the detector reports on it; the uploaded files have 0..MaxFrames
\* frames, with 1, 2, .., MaxObjs, 0, 1, .. objects on successive frames
VideoFiles ==
  {[n \in 1..len |-> n % (MaxObjs + 1)] : len \in 0..MaxFrames}

\* frame_numbers arguments of detect_objects_in_frames_task that are lists
FrameNumberLists ==
  {<<0>>, <<0, MaxFrames + 7>>}

VARIABLES
  Video,            \* table Video: id -> row
  ProcessingTask,   \* table ProcessingTask: sequence of rows, pk = index
  ProcessedFrame,   \* table ProcessedFrame: sequence of rows
  DetectedObject,   \* table DetectedObject: sequence of rows
  buckets,          \* MinIO buckets that exist
  objects,          \* MinIO objects, as keys <<bucket, stem, suffix>>
  delayed,          \* the video ids passed to process_video_task.delay, in
                    \* the order of the calls
  upload,           \* per video id: the position of the upload request
                    \* that creates it
  delivered,        \* executions started so far
  issued,           \* distinct request ids (self.request.id) delivered so far
  exec,             \* per worker: the arguments, position and local variables
                    \* of the execution it runs or ran last
  faults,           \* failures injected so far
  call,             \* one call of YOLOProcessor.process_video or
                    \* extract_frames on its own: arguments and locals
  meta,             \* MinIOClient.upload_video_metadata and
                    \* get_video_metadata on their own: the call in
                    \* progress, the local temporary files, the stored blobs
  ensure,           \* MinIOClient.__init__ on its own: the position of
                    \* each constructor that runs, the buckets made so far
  cleanup,          \* cleanup_temp_files_task on its own: the entries of
                    \* the two temporary directories and the run in progress
  put               \* MinIOClient.upload_file on its own: the call in
                    \* progress and the objects stored

vars ==
  <<Video, ProcessingTask, ProcessedFrame, DetectedObject, buckets, objects,
    delayed, upload, delivered, issued, exec, faults, call, meta, ensure,
          cleanup, put>>

dispatch == <<delivered, issued>>
tables == <<Video, ProcessingTask, ProcessedFrame, DetectedObject>>
\* the state of the calls that are modelled on their own
aside == <<call, meta, ensure, cleanup, put>>
minio == <<buckets, objects>>

\* ------------------------------------------------------------ models.py
\* Video(...) as created by the upload serializer: field defaults
NewVideo(file) ==
  [ video_file |-> file,
    status |-> "pending",
    processing_started_at |-> "None",
    processing_completed_at |-> "None",
    error_message |-> "",
    frame_count |-> NoneInt,
    processed_minio_key |-> <<>> ]

\* the create without status and started_at: the field defaults apply
NewTask_Defaults(pk, v, type, rid) ==
  [ pk |-> pk,
    video |-> v,
    task_type |-> type,
    celery_task_id |-> rid,
    status |-> "pending",
    started_at |-> "None",
    completed_at |-> "None",
    error_message |-> "",
    progress |-> 0 ]

\* ProcessingTask(...) as built by ProcessingTask.objects.create in the tasks
NewTask(pk, v, type, rid) ==
  [ pk |-> pk,
    video |-> v,
    task_type |-> type,
    celery_task_id |-> rid,
    status |-> "running",
    started_at |-> "now",
    completed_at |-> "None",
    error_message |-> "",
    progress |-> 0 ]

\* the column without its unique constraint
TaskIdFree_NoConstraint(rid) == TRUE

\* celery_task_id = models.CharField(unique=True)
TaskIdFree(rid) ==
  \A k \in 1..Len(ProcessingTask) : ProcessingTask[k].celery_task_id # rid

\* the table without unique_together
FramePairFree_NoConstraint(v, n) == TRUE

\* unique_together = ['video', 'frame_number']
FramePairFree(v, n) ==
  \A k \in 1..Len(ProcessedFrame) :
    ~(ProcessedFrame[k].video = v /\ ProcessedFrame[k].frame_number = n)

\* ----------------------------------------------------- yolo_processor.py
\* the while loop of process_video / extract_frames: frames are read from
\* index frame_number on; reading stops at the end of the file or at the
\* first frame that fails to decode (index stop); every frame whose index is
\* a multiple of frame_interval is selected
\* every frame is selected
Selected_All(frame_number, frame_interval) == TRUE

\* if frame_number % frame_interval == 0
Selected(frame_number, frame_interval) == frame_number % frame_interval = 0

RECURSIVE SelectFrames(_, _, _, _)
SelectFrames(file, frame_interval, stop, frame_number) ==
  IF frame_number >= Len(file) \/ frame_number >= stop
  THEN <<>>
  ELSE IF Selected(frame_number, frame_interval)
       THEN <<frame_number>> \o
            SelectFrames(file, frame_interval, stop, frame_number + 1)
       ELSE SelectFrames(file, frame_interval, stop, frame_number + 1)

\* _process_frame: the result record of one frame
ProcessFrame(file, frame_number) ==
  [ frame_number |-> frame_number,
    object_count |-> file[frame_number + 1] ]

\* the results in the reverse order
ProcessVideo_Reversed(file, frame_interval, stop) ==
  LET sel == SelectFrames(file, frame_interval, stop, 0)
  IN [k \in 1..Len(sel) |-> ProcessFrame(file, sel[Len(sel) + 1 - k])]

\* results['detections'] of process_video
ProcessVideo(file, frame_interval, stop) ==
  LET sel == SelectFrames(file, frame_interval, stop, 0)
  IN [k \in 1..Len(sel) |-> ProcessFrame(file, sel[k])]

\* ------------------------------------------------------- minio_client.py
\* _ensure_buckets_exist: every required bucket that is missing is created
EnsureBucketsExist(b) == b \cup required_buckets

\* the third part of a key whose object name carries no uuid suffix: the
\* object name is the given name unchanged
NoSuffix == 0

\* upload_file called without object_name: the object name is the base name
\* of the file, which then always equals os.path.basename(file_path), so the
\* uuid suffix is inserted before the extension; the returned key is
\* f"{bucket_name}/{object_name}"
UploadFileKey(bucket_name, stem, suffix) ==
  <<bucket_name, stem, suffix>>

\* --------------------------------------------------------------- tasks.py
\* int((i + 1) / len(frame_numbers) * 100)
Progress(i, n) == ((i + 1) * 100) \div n

\* the completion without progress = 100
CompletedTask_NoProgress(t) ==
  [t EXCEPT !.status = "completed", !.completed_at = "now"]

\* task_record.status = 'completed'; completed_at = now; progress = 100
CompletedTask(t) ==
  [t EXCEPT !.status = "completed", !.completed_at = "now", !.progress = 100]

\* video.status = 'completed'; video.processing_completed_at = now
CompletedVideo(v) ==
  [v EXCEPT !.status = "completed", !.processing_completed_at = "now"]

\* the failure update without error_message
FailedTask_NoMessage(t, msg) ==
  [t EXCEPT !.status = "failed", !.completed_at = "now"]

\* task_record.status = 'failed'; completed_at = now; error_message = str(e)
FailedTask(t, msg) ==
  [t EXCEPT !.status = "failed", !.completed_at = "now",
            !.error_message = msg]

\* the failure update without error_message
FailedVideo_NoMessage(v, msg) ==
  [v EXCEPT !.status = "failed"]

\* video.status = 'failed'; video.error_message = str(e)
FailedVideo(v, msg) ==
  [v EXCEPT !.status = "failed", !.error_message = msg]

IdleExec ==
  [ pc |-> "idle",
    kind |-> "video_processing",
    video_id |-> 1,
    request_id |-> 1,
    frame_interval |-> ProcessInterval,
    frame_numbers_given |-> FALSE,
    frame_numbers |-> <<>>,
    locals |-> {},
    video |-> NewVideo(<<>>),
    task_record |-> NewTask(0, 1, "video_processing", 1),
    results |-> <<>>,
    output_exists |-> FALSE,
    frame_paths |-> <<>>,
    i |-> 1,
    j |-> 1,
    e |-> "",
    \* history: the frame number of the last ProcessedFrame row and of the
    \* last DetectedObject row this execution created
    last_frame |-> NoneInt,
    last_object_frame |-> NoneInt,
    \* 'processed_frames' of the summary the task returns
    processed_frames |-> NoneInt ]

\* no call of the processor on its own
NoCall ==
  [ pc |-> "none",
    fn |-> "process_video",
    file |-> <<>>,
    frame_interval |-> 1,
    stop |-> 0,
    frame_number |-> 0,
    out |-> <<>> ]

\* the buckets in the order of the list in _ensure_buckets_exist
required_bucket_list ==
  <<"default", "processed-videos", "extracted-frames", "processed-images",
    "temp">>

\* no constructor runs
NoEnsure ==
  [ ctor |-> [c \in 1..MaxWorkers |-> [pc |-> "idle", i |-> 1]],
    constructed |-> 0,
    initial |-> {},
    made |-> [b \in required_buckets |-> 0],
    refused |-> 0 ]

\* the directories cleanup_temp_files_task looks into
temp_dirs == <<"extracted_frames", "temp">>

\* empty temporary directories, no run of cleanup_temp_files_task
NoCleanup ==
  [ pc |-> "idle",
    items |-> <<>>,     \* per <<directory, name>>, the entry: whether it is
                        \* a directory, and its age in hours
    before |-> <<>>,    \* the entries when the run started
    todo |-> <<>>,      \* the entries the two loops still have to visit
    runs |-> 0 ]

\* no call of upload_file, no object stored
NoPut ==
  [ pc |-> "none",
    basename |-> "",    \* os.path.basename(file_path)
    exists |-> FALSE,   \* os.path.exists(file_path)
    bucket_name |-> "None",
    object_name |-> "None",
    calls |-> 0,
    stored |-> {},
    result |-> <<>>,
    raising |-> "" ]

\* no call of the metadata methods, no temporary file, no blob
NoMeta ==
  [ pc |-> "none",
    fn |-> "upload_video_metadata",
    video_id |-> 1,
    metadata |-> <<>>,
    calls |-> 0,
    temp_path |-> 0,
    files |-> <<>>,
    blobs |-> <<>>,
    written |-> <<>>,   \* per video id, the dictionary of the last upload
                        \* that stored its blob
    result |-> "None",
    raising |-> "" ]

Init ==
  /\ Video = <<>>
  /\ ProcessingTask = <<>>
  /\ ProcessedFrame = <<>>
  /\ DetectedObject = <<>>
  /\ buckets = {}
  /\ objects = {}
  /\ delayed = <<>>
  /\ upload = [v \in VideoIds |-> "idle"]
  /\ delivered = 0
  /\ issued = 0
  /\ exec = [s \in ExecSlots |-> IdleExec]
  /\ faults = 0
  /\ call = NoCall
  /\ meta = NoMeta
  /\ ensure = NoEnsure
  /\ cleanup = NoCleanup
  /\ put = NoPut

CanFault == faults < MaxFaults
Fault == faults' = faults + 1
NoFault == UNCHANGED faults

\* an exception with message msg leaves the try block of the task
Raise(x, msg) == [x EXCEPT !.pc = "except", !.e = msg]

\* local variables that are no longer read are dropped: in the except block
\* only video, task_record and e are live; after the task has left, the
\* arguments, the task_record reference and the exception are kept
Live(x) ==
  LET args == [IdleExec EXCEPT !.pc = x.pc, !.kind = x.kind,
                               !.video_id = x.video_id,
                               !.request_id = x.request_id,
                               !.frame_interval = x.frame_interval,
                               !.frame_numbers_given = x.frame_numbers_given,
                               !.frame_numbers = x.frame_numbers,
                               !.locals = x.locals,
                               !.task_record = x.task_record, !.e = x.e]
  IN IF x.pc \in {"except", "except_video"}
     THEN [args EXCEPT !.video = x.video]
     ELSE IF x.pc = "returned"
          THEN [args EXCEPT !.processed_frames = x.processed_frames]
          ELSE IF x.pc = "raised" THEN args ELSE x

SetExec(s, x) == exec' = [exec EXCEPT ![s] = Live(x)]

\* Steps that touch no row and no object (the processor runs, the lookup of
\* cv2) commute with the steps of every other execution, so they are taken
\* before any other execution moves.  So does the call of delay that follows
\* the save of an upload.
LocalStep(x) == x.pc \in {"p_process", "d_detect"}

Scheduled(s) ==
  /\ \A t \in ExecSlots : t # s => ~LocalStep(exec[t])
  /\ \A v \in VideoIds : upload[v] # "saved"

\* ------------------------------------------------------------- views.py
\* VideoUploadView.perform_create: save the Video row, then enqueue
PerformCreate(v) ==
  /\ Scheduled(0)
  /\ upload[v] = "idle"
  /\ \A w \in VideoIds : w < v => w \in DOMAIN Video
  /\ \E file \in VideoFiles : Video' = Video @@ (v :> NewVideo(file))
  /\ upload' = [upload EXCEPT ![v] = "saved"]
  /\ UNCHANGED <<ProcessingTask, ProcessedFrame, DetectedObject, minio,
                 delayed, dispatch, exec, faults, aside>>

\* process_video_task.delay(str(video.id)): the message is handed to the
\* broker and the handler returns, or the broker cannot be reached and delay
\* raises, which nothing in perform_create catches
Delay(v) ==
  /\ upload[v] = "saved"
  /\ \/ /\ delayed' = Append(delayed, v)
        /\ upload' = [upload EXCEPT ![v] = "returned"]
        /\ NoFault
     \/ /\ CanFault /\ Fault
        /\ upload' = [upload EXCEPT ![v] = "raised"]
        /\ UNCHANGED delayed
  /\ UNCHANGED <<tables, minio, dispatch, exec, aside>>

Running(x) == x.pc \notin {"idle", "returned", "raised"}

\* the dispatcher starts an execution of one of the three tasks on a free
\* worker; deliveries are at-least-once, so the request id is either a new
\* one or one that was delivered before
Deliver(s) ==
  /\ Scheduled(s)
  /\ ~Running(exec[s])
  /\ \A t \in ExecSlots : t < s => Running(exec[t])
  /\ delivered < MaxExec
  /\ \E type \in TASK_TYPES, v \in VideoIds, rid \in 1..(issued + 1) :
       /\ issued' = IF rid > issued THEN rid ELSE issued
       /\ \E k \in 1..MaxInterval, given \in BOOLEAN,
               fn \in FrameNumberLists :
            /\ type # "frame_extraction" => k = ProcessInterval
            /\ type # "object_detection" => ~given
            /\ ~given => fn = <<0>>
            /\ SetExec(s, [IdleExec EXCEPT !.pc = "get", !.kind = type,
                             !.video_id = v, !.request_id = rid,
                             !.frame_interval = k,
                             !.frame_numbers_given = given,
                             !.frame_numbers = fn])
  /\ delivered' = delivered + 1
  /\ UNCHANGED <<tables, minio, delayed, upload, faults, aside>>

\* video = Video.objects.get(id=video_id)
GetVideo(s) ==
  LET x == exec[s] IN
  /\ Scheduled(s)
  /\ x.pc = "get"
  /\ IF x.video_id \in DOMAIN Video
     THEN SetExec(s, [x EXCEPT !.pc = "create",
                        !.video = Video[x.video_id],
                        !.locals = @ \cup {"video"}])
     ELSE \* except Video.DoesNotExist: raise
          SetExec(s, [x EXCEPT !.pc = "raised", !.e = "DoesNotExist"])
  /\ UNCHANGED <<tables, minio, delayed, upload, dispatch, faults, aside>>

AfterCreate(type) ==
  CASE type = "video_processing" -> "p_start"
    [] type = "frame_extraction" -> "e_extract"
    [] type = "object_detection" -> "d_detect"

\* task_record = ProcessingTask.objects.create(...)
CreateTaskRecord(s) ==
  LET x == exec[s]
      row == NewTask(Len(ProcessingTask) + 1, x.video_id, x.kind, x.request_id)
  IN
  /\ Scheduled(s)
  /\ x.pc = "create"
  /\ \/ /\ TaskIdFree(x.request_id)
        /\ ProcessingTask' = Append(ProcessingTask, row)
        /\ SetExec(s, [x EXCEPT !.pc = AfterCreate(x.kind),
                         !.task_record = row,
                         !.locals = @ \cup {"task_record"}])
        /\ NoFault
     \/ /\ ~TaskIdFree(x.request_id)
        /\ SetExec(s, Raise(x, "IntegrityError"))
        /\ UNCHANGED ProcessingTask
        /\ NoFault
     \/ /\ CanFault /\ Fault
        /\ SetExec(s, Raise(x, "OperationalError"))
        /\ UNCHANGED ProcessingTask
  /\ UNCHANGED <<Video, ProcessedFrame, DetectedObject, minio, delayed, upload, dispatch, aside>>

\* video.save(): every field of the in-memory copy is written to the row; a
\* failing write raises, to failpc
SaveVideo(s, x, v, nextpc, failpc) ==
  \/ /\ Video' = [Video EXCEPT ![x.video_id] = v]
     /\ SetExec(s, [x EXCEPT !.video = v, !.pc = nextpc])
     /\ NoFault
  \/ /\ CanFault /\ Fault
     /\ SetExec(s, [x EXCEPT !.video = v, !.pc = failpc,
                      !.e = "OperationalError"])
     /\ UNCHANGED Video

\* an update of every Job row of the video instead of the execution's own
SaveTask_AllOfVideo(s, x, t, nextpc, failpc) ==
  \/ /\ ProcessingTask' =
          [k \in 1..Len(ProcessingTask) |->
             IF ProcessingTask[k].video = t.video
             THEN [ProcessingTask[k] EXCEPT
                     !.status = t.status, !.completed_at = t.completed_at,
                     !.error_message = t.error_message,
                     !.progress = t.progress]
             ELSE ProcessingTask[k]]
     /\ SetExec(s, [x EXCEPT !.task_record = t, !.pc = nextpc])
     /\ NoFault
  \/ /\ CanFault /\ Fault
     /\ SetExec(s, [x EXCEPT !.task_record = t, !.pc = failpc,
                      !.e = "OperationalError"])
     /\ UNCHANGED ProcessingTask

\* task_record.save()
SaveTask(s, x, t, nextpc, failpc) ==
  \/ /\ ProcessingTask' = [ProcessingTask EXCEPT ![t.pk] = t]
     /\ SetExec(s, [x EXCEPT !.task_record = t, !.pc = nextpc])
     /\ NoFault
  \/ /\ CanFault /\ Fault
     /\ SetExec(s, [x EXCEPT !.task_record = t, !.pc = failpc,
                      !.e = "OperationalError"])
     /\ UNCHANGED ProcessingTask

\* video.status = 'processing'; processing_started_at = now; video.save()
MarkProcessing(s) ==
  LET x == exec[s]
      v == [x.video EXCEPT !.status = "processing",
                           !.processing_started_at = "now"]
  IN
  /\ Scheduled(s)
  /\ x.pc = "p_start"
  /\ SaveVideo(s, x, v, "p_metadata", "except")
  /\ UNCHANGED <<ProcessingTask, ProcessedFrame, DetectedObject, minio,
                 delayed, upload, dispatch, aside>>

\* processor = YOLOProcessor(); metadata = processor.get_video_metadata(...);
\* video.frame_count = metadata['frame_count'] ...; video.save()
StoreMetadata(s) ==
  LET x == exec[s]
      v == [x.video EXCEPT !.frame_count = Len(x.video.video_file)]
  IN
  /\ Scheduled(s)
  /\ x.pc = "p_metadata"
  /\ \/ SaveVideo(s, x, v, "p_process", "except")
     \/ /\ CanFault /\ Fault
        /\ SetExec(s, Raise(x, "FileNotFoundError"))
        /\ UNCHANGED Video
  /\ UNCHANGED <<ProcessingTask, ProcessedFrame, DetectedObject, minio,
                 delayed, upload, dispatch, aside>>

\* results = processor.process_video(video_path, output_path, frame_interval=1)
RunProcessVideo(s) ==
  LET x == exec[s]
      file == x.video.video_file
  IN
  /\ Scheduled(s)
  /\ x.pc = "p_process"
  /\ \/ \* every frame decodes
        /\ \E out \in BOOLEAN :
             SetExec(s, [x EXCEPT !.pc = "p_frames", !.i = 1,
                           !.results = ProcessVideo(file, ProcessInterval, Len(file)),
                           !.output_exists = out])
        /\ NoFault
     \/ \* cap.read() fails at frame stop: the loop breaks, partial results
        /\ CanFault /\ Fault
        /\ \E stop \in 0..(Len(file) - 1), out \in BOOLEAN :
             SetExec(s, [x EXCEPT !.pc = "p_frames", !.i = 1,
                           !.results = ProcessVideo(file, ProcessInterval, stop),
                           !.output_exists = out])
     \/ \* the file is missing, or the detector raises on a selected frame
        /\ CanFault /\ Fault
        /\ \E msg \in {"FileNotFoundError", "DetectorError"} :
             /\ msg = "DetectorError" => Len(file) > 0
             /\ SetExec(s, Raise(x, msg))
  /\ UNCHANGED <<tables, minio, delayed, upload, dispatch, aside>>

\* ProcessedFrame.objects.create(video, frame_number, objects_detected, ...)
CreateProcessedFrame(s) ==
  LET x == exec[s]
      frame_result == x.results[x.i]
      row == [ video |-> x.video_id,
               frame_number |-> frame_result.frame_number,
               objects_detected |-> frame_result.object_count ]
  IN
  /\ Scheduled(s)
  /\ x.pc = "p_frames"
  /\ x.i <= Len(x.results)
  /\ \/ /\ FramePairFree(row.video, row.frame_number)
        /\ ProcessedFrame' = Append(ProcessedFrame, row)
        /\ IF frame_result.object_count > 0
           THEN SetExec(s, [x EXCEPT !.pc = "p_objects", !.j = 1,
                              !.last_frame = row.frame_number])
           ELSE SetExec(s, [x EXCEPT !.i = @ + 1,
                              !.last_frame = row.frame_number])
        /\ NoFault
     \/ /\ ~FramePairFree(row.video, row.frame_number)
        /\ SetExec(s, Raise(x, "IntegrityError"))
        /\ UNCHANGED ProcessedFrame
        /\ NoFault
     \/ /\ CanFault /\ Fault
        /\ SetExec(s, Raise(x, "OperationalError"))
        /\ UNCHANGED ProcessedFrame
  /\ UNCHANGED <<Video, ProcessingTask, DetectedObject, minio, delayed, upload, dispatch, aside>>

\* DetectedObject.objects.create(video, frame_number, object_class, ...)
CreateDetectedObject(s) ==
  LET x == exec[s]
      frame_result == x.results[x.i]
      row == [ video |-> x.video_id,
               frame_number |-> frame_result.frame_number,
               obj |-> x.j ]
  IN
  /\ Scheduled(s)
  /\ x.pc = "p_objects"
  /\ \/ /\ DetectedObject' = Append(DetectedObject, row)
        /\ IF x.j < frame_result.object_count
           THEN SetExec(s, [x EXCEPT !.j = @ + 1,
                              !.last_object_frame = row.frame_number])
           ELSE SetExec(s, [x EXCEPT !.pc = "p_frames", !.i = @ + 1,
                              !.last_object_frame = row.frame_number])
        /\ NoFault
     \/ /\ CanFault /\ Fault
        /\ SetExec(s, Raise(x, "OperationalError"))
        /\ UNCHANGED DetectedObject
  /\ UNCHANGED <<Video, ProcessingTask, ProcessedFrame, minio, delayed, upload, dispatch, aside>>

\* minio_client = MinIOClient(); if os.path.exists(output_path):
\* video.processed_minio_key = upload_file(output_path, 'processed-videos')
UploadProcessedVideo(s) ==
  LET x == exec[s] IN
  /\ Scheduled(s)
  /\ x.pc = "p_frames"
  /\ x.i > Len(x.results)
  /\ \/ /\ x.output_exists
        /\ \E suffix \in 1..MaxSuffix :
             LET minio_key == UploadFileKey("processed-videos",
                                            <<"processed", x.video_id>>, suffix)
             IN /\ objects' = objects \cup {minio_key}
                /\ SetExec(s, [x EXCEPT !.pc = "p_save_key",
                                 !.video.processed_minio_key = minio_key])
        /\ buckets' = EnsureBucketsExist(buckets)
        /\ NoFault
     \/ /\ ~x.output_exists
        /\ SetExec(s, [x EXCEPT !.pc = "complete_task"])
        /\ buckets' = EnsureBucketsExist(buckets)
        /\ UNCHANGED objects
        /\ NoFault
     \/ \* MinIOClient() raises, or it succeeds and upload_file raises
        /\ CanFault /\ Fault
        /\ SetExec(s, Raise(x, "S3Error"))
        /\ \/ UNCHANGED buckets
           \/ x.output_exists /\ buckets' = EnsureBucketsExist(buckets)
        /\ UNCHANGED objects
  /\ UNCHANGED <<tables, delayed, upload, dispatch, aside>>

\* video.save() after the processed key was set
SaveProcessedKey(s) ==
  LET x == exec[s] IN
  /\ Scheduled(s)
  /\ x.pc = "p_save_key"
  /\ SaveVideo(s, x, x.video, "complete_task", "except")
  /\ UNCHANGED <<ProcessingTask, ProcessedFrame, DetectedObject, minio,
                 delayed, upload, dispatch, aside>>

\* 'processed_frames' in the dictionary the task returns after the Job is
\* saved as completed: detect_objects_in_frames_task returns
\* len(frame_numbers); the summaries of the other two tasks are not recorded
ProcessedFramesReturned(x) ==
  IF x.kind = "object_detection" THEN Len(x.frame_numbers) ELSE NoneInt

\* task_record.status = 'completed'; completed_at = now; progress = 100;
\* task_record.save(); return {...}
CompleteTask(s) ==
  LET x == [exec[s] EXCEPT !.processed_frames = ProcessedFramesReturned(exec[s])]
      t == CompletedTask(x.task_record)
  IN
  /\ Scheduled(s)
  /\ x.pc = "complete_task"
  /\ SaveTask(s, x, t,
              IF x.kind = "video_processing" THEN "p_complete_video"
                                             ELSE "returned",
              "except")
  /\ UNCHANGED <<Video, ProcessedFrame, DetectedObject, minio, delayed, upload, dispatch, aside>>

\* video.status = 'completed'; processing_completed_at = now; video.save()
CompleteVideo(s) ==
  LET x == exec[s]
      v == CompletedVideo(x.video)
  IN
  /\ Scheduled(s)
  /\ x.pc = "p_complete_video"
  /\ SaveVideo(s, x, v, "returned", "except")
  /\ UNCHANGED <<ProcessingTask, ProcessedFrame, DetectedObject, minio,
                 delayed, upload, dispatch, aside>>

\* an except block that updates the Video for every kind of task
AfterHandleTask_Always(type) == "except_video"

\* what follows the update of task_record in the except block: only
\* process_video_task goes on to update the Video, the other two raise
AfterHandleTask(type) ==
  IF type = "video_processing" THEN "except_video" ELSE "raised"

\* except Exception as e: if 'task_record' in locals(): status = 'failed';
\* completed_at = now; error_message = str(e); task_record.save()
HandleTask(s) ==
  LET x == exec[s]
      t == FailedTask(x.task_record, x.e)
      nextpc == AfterHandleTask(x.kind)
  IN
  /\ Scheduled(s)
  /\ x.pc = "except"
  /\ IF "task_record" \in x.locals
     THEN SaveTask(s, x, t, nextpc, "raised")
     ELSE /\ SetExec(s, [x EXCEPT !.pc = nextpc])
          /\ UNCHANGED <<ProcessingTask, faults>>
  /\ UNCHANGED <<Video, ProcessedFrame, DetectedObject, minio, delayed, upload, dispatch, aside>>

\* if 'video' in locals(): video.status = 'failed';
\* video.error_message = str(e); video.save(); then raise
HandleVideo(s) ==
  LET x == exec[s]
      v == FailedVideo(x.video, x.e)
  IN
  /\ Scheduled(s)
  /\ x.pc = "except_video"
  /\ IF "video" \in x.locals
     THEN SaveVideo(s, x, v, "raised", "raised")
     ELSE /\ SetExec(s, [x EXCEPT !.pc = "raised"])
          /\ UNCHANGED <<Video, faults>>
  /\ UNCHANGED <<ProcessingTask, ProcessedFrame, DetectedObject, minio,
                 delayed, upload, dispatch, aside>>

\* processor = YOLOProcessor(); frame_paths = processor.extract_frames(...);
\* minio_client = MinIOClient()
ExtractFrames(s) ==
  LET x == exec[s]
      file == x.video.video_file
  IN
  /\ Scheduled(s)
  /\ x.pc = "e_extract"
  /\ \/ /\ LET paths == SelectFrames(file, x.frame_interval, Len(file), 0)
           IN SetExec(s, [x EXCEPT !.frame_paths = paths, !.i = 1,
                            !.pc = IF paths = <<>> THEN "complete_task"
                                                   ELSE "e_upload"])
        /\ buckets' = EnsureBucketsExist(buckets)
        /\ NoFault
     \/ /\ CanFault /\ Fault
        /\ \E stop \in 0..(Len(file) - 1) :
             LET paths == SelectFrames(file, x.frame_interval, stop, 0)
             IN SetExec(s, [x EXCEPT !.frame_paths = paths, !.i = 1,
                              !.pc = IF paths = <<>> THEN "complete_task"
                                                     ELSE "e_upload"])
        /\ buckets' = EnsureBucketsExist(buckets)
     \/ /\ CanFault /\ Fault
        /\ \E msg \in {"FileNotFoundError", "S3Error"} :
             SetExec(s, Raise(x, msg))
        /\ UNCHANGED buckets
  /\ UNCHANGED <<tables, objects, delayed, upload, dispatch, aside>>

\* minio_client.upload_file(frame_path, 'extracted-frames')
UploadFrame(s) ==
  LET x == exec[s]
      frame_number == x.frame_paths[x.i]
  IN
  /\ Scheduled(s)
  /\ x.pc = "e_upload"
  /\ \/ /\ \E suffix \in 1..MaxSuffix :
             objects' = objects \cup
               {UploadFileKey("extracted-frames", <<"frame", frame_number>>,
                              suffix)}
        /\ SetExec(s, [x EXCEPT !.i = @ + 1,
                         !.pc = IF x.i = Len(x.frame_paths)
                                THEN "complete_task" ELSE "e_upload"])
        /\ NoFault
     \/ /\ CanFault /\ Fault
        /\ SetExec(s, Raise(x, "S3Error"))
        /\ UNCHANGED objects
  /\ UNCHANGED <<tables, buckets, delayed, upload, dispatch, aside>>

\* processor = YOLOProcessor(); metadata = processor.get_video_metadata(...);
\* cap = cv2.VideoCapture(...): the name cv2 is looked up in the module
OpenCapture(s) ==
  LET x == exec[s]
      total_frames == Len(x.video.video_file)
      frame_numbers ==
        IF x.frame_numbers_given THEN x.frame_numbers
        ELSE [k \in 1..((total_frames + DefaultDetectStep - 1)
                          \div DefaultDetectStep)
                |-> (k - 1) * DefaultDetectStep]
  IN
  /\ Scheduled(s)
  /\ x.pc = "d_detect"
  /\ \/ /\ IF Cv2Imported
           THEN SetExec(s, [x EXCEPT !.i = 0,
                              !.frame_numbers = frame_numbers,
                              !.pc = IF frame_numbers = <<>>
                                     THEN "complete_task" ELSE "d_loop"])
           ELSE SetExec(s, Raise([x EXCEPT !.frame_numbers = frame_numbers],
                                 "NameError"))
        /\ NoFault
     \/ /\ CanFault /\ Fault
        /\ SetExec(s, Raise(x, "FileNotFoundError"))
  /\ UNCHANGED <<tables, minio, delayed, upload, dispatch, aside>>

\* The loop of detect_objects_in_frames_task.  It follows the failing lookup
\* of cv2, so no execution reaches it and it is no disjunct of Next.

\* the end of one iteration: the next index, or the end of the loop
NextFrame(x) ==
  IF x.i + 1 < Len(x.frame_numbers)
  THEN [x EXCEPT !.i = @ + 1, !.pc = "d_loop"]
  ELSE [x EXCEPT !.i = @ + 1, !.pc = "complete_task"]

\* cap.set(cv2.CAP_PROP_POS_FRAMES, frame_number); ret, frame = cap.read();
\* if ret: frame_result = processor._process_frame(frame, frame_number)
DetectFrame(s) ==
  LET x == exec[s]
      file == x.video.video_file
      frame_number == x.frame_numbers[x.i + 1]
      ret == frame_number < Len(file)
  IN
  /\ Scheduled(s)
  /\ x.pc = "d_loop"
  /\ \/ /\ IF ret
           THEN IF ProcessFrame(file, frame_number).object_count > 0
                THEN SetExec(s, [x EXCEPT !.pc = "d_objects", !.j = 1])
                ELSE SetExec(s, [x EXCEPT !.pc = "d_progress"])
           ELSE SetExec(s, NextFrame(x))
        /\ NoFault
     \/ \* the frame fails to decode
        /\ ret /\ CanFault /\ Fault
        /\ SetExec(s, NextFrame(x))
     \/ \* the detector raises
        /\ ret /\ CanFault /\ Fault
        /\ SetExec(s, Raise(x, "DetectorError"))
  /\ UNCHANGED <<tables, minio, delayed, upload, dispatch, aside>>

\* DetectedObject.objects.create(...) for one object of the frame
CreateDetection(s) ==
  LET x == exec[s]
      frame_number == x.frame_numbers[x.i + 1]
      row == [ video |-> x.video_id,
               frame_number |-> frame_number,
               obj |-> x.j ]
  IN
  /\ Scheduled(s)
  /\ x.pc = "d_objects"
  /\ \/ /\ DetectedObject' = Append(DetectedObject, row)
        /\ IF x.j < ProcessFrame(x.video.video_file, frame_number).object_count
           THEN SetExec(s, [x EXCEPT !.j = @ + 1,
                              !.last_object_frame = frame_number])
           ELSE SetExec(s, [x EXCEPT !.pc = "d_progress",
                              !.last_object_frame = frame_number])
        /\ NoFault
     \/ /\ CanFault /\ Fault
        /\ SetExec(s, Raise(x, "OperationalError"))
        /\ UNCHANGED DetectedObject
  /\ UNCHANGED <<Video, ProcessingTask, ProcessedFrame, minio, delayed, upload,
                 dispatch, aside>>

\* task_record.progress = int((i + 1) / len(frame_numbers) * 100);
\* task_record.save()
SaveProgress(s) ==
  LET x == exec[s]
      t == [x.task_record EXCEPT
              !.progress = Progress(x.i, Len(x.frame_numbers))]
  IN
  /\ Scheduled(s)
  /\ x.pc = "d_progress"
  /\ SaveTask(s, NextFrame(x), t, NextFrame(x).pc, "except")
  /\ UNCHANGED <<Video, ProcessedFrame, DetectedObject, minio, delayed, upload,
                 dispatch, aside>>

Next ==
  \/ \E v \in VideoIds : PerformCreate(v)
  \/ \E v \in VideoIds : Delay(v)
  \/ \E s \in ExecSlots : Deliver(s)
  \/ \E s \in ExecSlots : GetVideo(s)
  \/ \E s \in ExecSlots : CreateTaskRecord(s)
  \/ \E s \in ExecSlots : MarkProcessing(s)
  \/ \E s \in ExecSlots : StoreMetadata(s)
  \/ \E s \in ExecSlots : RunProcessVideo(s)
  \/ \E s \in ExecSlots : CreateProcessedFrame(s)
  \/ \E s \in ExecSlots : CreateDetectedObject(s)
  \/ \E s \in ExecSlots : UploadProcessedVideo(s)
  \/ \E s \in ExecSlots : SaveProcessedKey(s)
  \/ \E s \in ExecSlots : CompleteTask(s)
  \/ \E s \in ExecSlots : CompleteVideo(s)
  \/ \E s \in ExecSlots : HandleTask(s)
  \/ \E s \in ExecSlots : HandleVideo(s)
  \/ \E s \in ExecSlots : ExtractFrames(s)
  \/ \E s \in ExecSlots : UploadFrame(s)
  \/ \E s \in ExecSlots : OpenCapture(s)

Spec == Init /\ [][Next]_vars

\* a step of the execution that runs on worker s
Run(s) ==
  \/ GetVideo(s)
  \/ CreateTaskRecord(s)
  \/ MarkProcessing(s)
  \/ StoreMetadata(s)
  \/ RunProcessVideo(s)
  \/ CreateProcessedFrame(s)
  \/ CreateDetectedObject(s)
  \/ UploadProcessedVideo(s)
  \/ SaveProcessedKey(s)
  \/ CompleteTask(s)
  \/ CompleteVideo(s)
  \/ HandleTask(s)
  \/ HandleVideo(s)
  \/ ExtractFrames(s)
  \/ UploadFrame(s)
  \/ OpenCapture(s)

\* a worker that has started an execution keeps running it: the task bodies
\* wait for nothing but their own calls; uploads and deliveries are up to
\* the clients and the dispatcher and may stop at any time
SpecFair == Spec /\ \A s \in ExecSlots : WF_vars(Run(s))

\* ------------------------------- yolo_processor.py, the processor on its own
\* One call of process_video or extract_frames, step by step.  Its inputs:
\* the file, frame_interval, and stop, the index of the first frame that
\* cap.read() fails to decode (Len(file) when every frame decodes).
FileOfLen(len) == [n \in 1..len |-> n % (MaxObjs + 1)]

InitProcessor ==
  /\ Video = <<>>
  /\ ProcessingTask = <<>>
  /\ ProcessedFrame = <<>>
  /\ DetectedObject = <<>>
  /\ buckets = {}
  /\ objects = {}
  /\ delayed = <<>>
  /\ upload = [v \in VideoIds |-> "idle"]
  /\ delivered = 0
  /\ issued = 0
  /\ exec = [s \in ExecSlots |-> IdleExec]
  /\ faults = 0
  /\ meta = NoMeta
  /\ ensure = NoEnsure
  /\ cleanup = NoCleanup
  /\ put = NoPut
  /\ \E fn \in {"process_video", "extract_frames"}, len \in 0..MaxLen,
        k \in 1..MaxStep :
       \E stop \in 0..len :
         call = [NoCall EXCEPT !.pc = "loop", !.fn = fn,
                               !.file = FileOfLen(len),
                               !.frame_interval = k, !.stop = stop]

\* a read that fails only at the end of the file
Ret_EndOnly(c) == c.frame_number < Len(c.file)

\* ret of cap.read() at the current frame
Ret(c) == c.frame_number < Len(c.file) /\ c.frame_number # c.stop

\* ret is true: if the frame is selected, process_video appends
\* _process_frame(frame, frame_number) to results['detections'] and
\* extract_frames appends the path frame_{frame_number:06d}.jpg to
\* frame_paths; frame_number += 1
ReadFrame ==
  /\ call.pc = "loop"
  /\ Ret(call)
  /\ call' =
       [call EXCEPT
          !.frame_number = @ + 1,
          !.out = IF Selected(call.frame_number, call.frame_interval)
                  THEN Append(@, IF call.fn = "process_video"
                                 THEN ProcessFrame(call.file, call.frame_number)
                                 ELSE call.frame_number)
                  ELSE @]
  /\ UNCHANGED <<tables, minio, delayed, upload, dispatch, exec, faults, meta,
                 ensure, cleanup, put>>

\* if not ret: break; finally: cap.release(); return
ReadBreak ==
  /\ call.pc = "loop"
  /\ ~Ret(call)
  /\ call' = [call EXCEPT !.pc = "returned"]
  /\ UNCHANGED <<tables, minio, delayed, upload, dispatch, exec, faults, meta,
                 ensure, cleanup, put>>

\* self.model(frame) raises inside _process_frame: nothing in process_video
\* catches it
ProcessFrameRaises ==
  /\ call.pc = "loop"
  /\ call.fn = "process_video"
  /\ Ret(call)
  /\ Selected(call.frame_number, call.frame_interval)
  /\ call' = [call EXCEPT !.pc = "raised"]
  /\ UNCHANGED <<tables, minio, delayed, upload, dispatch, exec, faults, meta,
                 ensure, cleanup, put>>

NextProcessor ==
  \/ ReadFrame
  \/ ReadBreak
  \/ ProcessFrameRaises

SpecProcessor == InitProcessor /\ [][NextProcessor]_vars

\* --------------------------- minio_client.py, the metadata methods on their own
MaxCalls == 3       \* calls of the metadata methods in one behaviour
MaxMetaIds == 2     \* video ids the metadata methods are called with

\* Python values, as far as json tells them apart: a tag and a payload.
\* Numbers and strings carry their text, containers their members.
PyInt(text) == [t |-> "int", v |-> text]
PyStr(text) == [t |-> "str", v |-> text]
PyList(members) == [t |-> "list", v |-> members]
PyTuple(members) == [t |-> "tuple", v |-> members]
PyDict(items) == [t |-> "dict", v |-> items]     \* items: <<key, value>> pairs
PyDatetime == [t |-> "datetime", v |-> "now"]    \* no JSON encoding

\* the metadata dictionaries the methods are called with
MetadataDocs ==
  { PyDict(<<>>),
    PyDict(<< <<PyStr("frame_count"), PyInt("30")>>,
              <<PyStr("resolution"), PyStr("640x480")>> >>),
    PyDict(<< <<PyStr("tags"), PyList(<<PyStr("a"), PyInt("1")>>)>> >>),
    PyDict(<< <<PyStr("size"), PyTuple(<<PyInt("640"), PyInt("480")>>)>> >>),
    PyDict(<< <<PyInt("1"), PyStr("first")>> >>),
    PyDict(<< <<PyStr("uploaded_at"), PyDatetime>> >>) }

\* whether json.dump accepts the value: the default encoder knows numbers,
\* strings, lists, tuples and dicts with such keys
RECURSIVE Serializable(_)
Serializable(val) ==
  CASE val.t \in {"int", "str"} -> TRUE
    [] val.t \in {"list", "tuple"} ->
         \A k \in 1..Len(val.v) : Serializable(val.v[k])
    [] val.t = "dict" ->
         \A k \in 1..Len(val.v) :
           /\ val.v[k][1].t \in {"int", "str"}
           /\ Serializable(val.v[k][2])
    [] OTHER -> FALSE

\* json.dump: the JSON text, as its tree; lists and tuples both become
\* arrays, an int key becomes the string of its digits
RECURSIVE JsonDump(_)
JsonDump(val) ==
  CASE val.t = "int" -> [t |-> "number", v |-> val.v]
    [] val.t = "str" -> [t |-> "string", v |-> val.v]
    [] val.t \in {"list", "tuple"} ->
         [t |-> "array", v |-> [k \in 1..Len(val.v) |-> JsonDump(val.v[k])]]
    [] val.t = "dict" ->
         [t |-> "object",
          v |-> [k \in 1..Len(val.v) |->
                   <<[t |-> "string", v |-> val.v[k][1].v],
                     JsonDump(val.v[k][2])>>]]

\* a decoder that gives tuples for arrays
RECURSIVE JsonLoad_Tuples(_)
JsonLoad_Tuples(json) ==
  CASE json.t = "number" -> PyInt(json.v)
    [] json.t = "string" -> PyStr(json.v)
    [] json.t = "array" ->
         PyTuple([k \in 1..Len(json.v) |-> JsonLoad_Tuples(json.v[k])])
    [] json.t = "object" ->
         PyDict([k \in 1..Len(json.v) |->
                   <<PyStr(json.v[k][1].v), JsonLoad_Tuples(json.v[k][2])>>])

\* json.load: numbers, strings, lists for arrays, dicts with str keys
RECURSIVE JsonLoad(_)
JsonLoad(json) ==
  CASE json.t = "number" -> PyInt(json.v)
    [] json.t = "string" -> PyStr(json.v)
    [] json.t = "array" ->
         PyList([k \in 1..Len(json.v) |-> JsonLoad(json.v[k])])
    [] json.t = "object" ->
         PyDict([k \in 1..Len(json.v) |->
                   <<PyStr(json.v[k][1].v), JsonLoad(json.v[k][2])>>])

\* what a file holds when json.dump could not finish
PartialText == [t |-> "partial", v |-> ""]

\* f"metadata/{video_id}.json"
MetadataObjectName(video_id) == <<"metadata", video_id>>

\* upload_file with an object_name: the uuid suffix is inserted only when
\* the name equals the base name of the local file
UploadFileKeyNamed(bucket_name, object_name, basename, suffix) ==
  IF object_name = basename
  THEN <<bucket_name, object_name, suffix>>
  ELSE <<bucket_name, object_name, NoSuffix>>

\* the base name of the temporary file that call number n creates
TempName(n) == <<"tmp", n>>

MetaOver(m) == m.pc \in {"none", "returned", "raised"}

InitMetadata ==
  /\ Video = <<>>
  /\ ProcessingTask = <<>>
  /\ ProcessedFrame = <<>>
  /\ DetectedObject = <<>>
  /\ buckets = required_buckets
  /\ objects = {}
  /\ delayed = <<>>
  /\ upload = [v \in VideoIds |-> "idle"]
  /\ delivered = 0
  /\ issued = 0
  /\ exec = [s \in ExecSlots |-> IdleExec]
  /\ faults = 0
  /\ call = NoCall
  /\ meta = NoMeta
  /\ ensure = NoEnsure
  /\ cleanup = NoCleanup
  /\ put = NoPut

MetaStep(m) ==
  /\ meta' = m
  /\ UNCHANGED <<tables, minio, delayed, upload, dispatch, exec, call,
                 ensure, cleanup, put>>

\* a caller invokes upload_video_metadata(video_id, metadata)
CallUploadMetadata ==
  /\ MetaOver(meta)
  /\ meta.calls < MaxCalls
  /\ \E v \in 1..MaxMetaIds, doc \in MetadataDocs :
       MetaStep([meta EXCEPT !.pc = "u_dump", !.fn = "upload_video_metadata",
                             !.video_id = v, !.metadata = doc,
                             !.calls = @ + 1, !.temp_path = 0,
                             !.result = "None", !.raising = ""])
  /\ NoFault

\* a caller invokes get_video_metadata(video_id)
CallGetMetadata ==
  /\ MetaOver(meta)
  /\ meta.calls < MaxCalls
  /\ \E v \in 1..MaxMetaIds :
       MetaStep([meta EXCEPT !.pc = "g_temp", !.fn = "get_video_metadata",
                             !.video_id = v, !.metadata = <<>>,
                             !.calls = @ + 1, !.temp_path = 0,
                             !.result = "None", !.raising = ""])
  /\ NoFault

\* with tempfile.NamedTemporaryFile(mode='w', suffix='.json', delete=False)
\* as f: json.dump(metadata, f, indent=2); temp_path = f.name
DumpMetadata ==
  /\ meta.pc = "u_dump"
  /\ IF Serializable(meta.metadata)
     THEN MetaStep([meta EXCEPT
            !.files = (meta.calls :> JsonDump(meta.metadata)) @@ @,
            !.temp_path = meta.calls,
            !.pc = "u_upload"])
     ELSE \* json.dump raises TypeError inside the with block: the file is
          \* closed and kept, temp_path is not bound, the try is not entered
          MetaStep([meta EXCEPT
            !.files = (meta.calls :> PartialText) @@ @,
            !.raising = "TypeError",
            !.pc = "raised"])
  /\ NoFault

\* return self.upload_file(temp_path, self.default_bucket, object_name)
UploadMetadataFile ==
  /\ meta.pc = "u_upload"
  /\ \/ /\ \E suffix \in 1..MaxSuffix :
             LET key == UploadFileKeyNamed("default",
                                           MetadataObjectName(meta.video_id),
                                           TempName(meta.temp_path), suffix)
             IN MetaStep([meta EXCEPT
                            !.blobs = (key :> meta.files[meta.temp_path]) @@ @,
                            !.written = (meta.video_id :> meta.metadata) @@ @,
                            !.result = key,
                            !.pc = "u_unlink"])
        /\ NoFault
     \/ /\ CanFault /\ Fault
        /\ MetaStep([meta EXCEPT !.raising = "S3Error", !.pc = "u_unlink"])

\* the set of temporary files without file n
RemoveFile(files, n) == [k \in DOMAIN files \ {n} |-> files[k]]

\* finally: os.unlink(temp_path), then the return or the raise goes on
UnlinkUploaded ==
  /\ meta.pc = "u_unlink"
  /\ MetaStep([meta EXCEPT
                 !.files = RemoveFile(@, meta.temp_path),
                 !.pc = IF meta.raising = "" THEN "returned" ELSE "raised"])
  /\ NoFault

\* with tempfile.NamedTemporaryFile(delete=False) as f: temp_path = f.name
CreateTemp ==
  /\ meta.pc = "g_temp"
  /\ MetaStep([meta EXCEPT
                 !.files = (meta.calls :> PartialText) @@ @,
                 !.temp_path = meta.calls,
                 !.pc = "g_download"])
  /\ NoFault

\* if self.download_file(self.default_bucket, object_name, temp_path):
\* download_file returns False on S3Error (no such object, store down)
DownloadMetadata ==
  LET key == <<"default", MetadataObjectName(meta.video_id), NoSuffix>> IN
  /\ meta.pc = "g_download"
  /\ \/ /\ key \in DOMAIN meta.blobs
        /\ MetaStep([meta EXCEPT
                       !.files = (meta.temp_path :> meta.blobs[key]) @@ @,
                       !.pc = "g_load"])
        /\ NoFault
     \/ /\ key \notin DOMAIN meta.blobs
        /\ MetaStep([meta EXCEPT !.result = "None", !.pc = "g_unlink"])
        /\ NoFault
     \/ /\ CanFault /\ Fault
        /\ MetaStep([meta EXCEPT !.result = "None", !.pc = "g_unlink"])

\* with open(temp_path, 'r') as f: metadata = json.load(f); return metadata
LoadMetadata ==
  /\ meta.pc = "g_load"
  /\ MetaStep([meta EXCEPT !.result = JsonLoad(meta.files[meta.temp_path]),
                           !.pc = "g_unlink"])
  /\ NoFault

\* finally: if 'temp_path' in locals(): os.unlink(temp_path)
UnlinkDownloaded ==
  /\ meta.pc = "g_unlink"
  /\ MetaStep([meta EXCEPT !.files = RemoveFile(@, meta.temp_path),
                           !.pc = "returned"])
  /\ NoFault

NextMetadata ==
  \/ CallUploadMetadata
  \/ CallGetMetadata
  \/ DumpMetadata
  \/ UploadMetadataFile
  \/ UnlinkUploaded
  \/ CreateTemp
  \/ DownloadMetadata
  \/ LoadMetadata
  \/ UnlinkDownloaded

SpecMetadata == InitMetadata /\ [][NextMetadata]_vars

\* ------------------------------ minio_client.py, MinIOClient() on its own
MaxConstructs == 3  \* constructions of MinIOClient in one behaviour

InitBuckets ==
  /\ Video = <<>>
  /\ ProcessingTask = <<>>
  /\ ProcessedFrame = <<>>
  /\ DetectedObject = <<>>
  /\ objects = {}
  /\ delayed = <<>>
  /\ upload = [v \in VideoIds |-> "idle"]
  /\ delivered = 0
  /\ issued = 0
  /\ exec = [s \in ExecSlots |-> IdleExec]
  /\ faults = 0
  /\ call = NoCall
  /\ meta = NoMeta
  /\ cleanup = NoCleanup
  /\ put = NoPut
  /\ \E b \in SUBSET required_buckets :
       /\ buckets = b
       /\ ensure = [NoEnsure EXCEPT !.initial = b]

\* the constructor c goes on to the next bucket of the list, or returns
NextBucket(x) ==
  IF x.i < Len(required_bucket_list)
  THEN [pc |-> "check", i |-> x.i + 1]
  ELSE [pc |-> "done", i |-> x.i]

\* an S3Error that leaves the constructor
OnS3Error_Propagates(x) == [pc |-> "raised", i |-> x.i]

\* except S3Error as e: logger.error(...): the loop goes on
OnS3Error(x) == NextBucket(x)

EnsureStep(c, x) ==
  /\ ensure' = [ensure EXCEPT !.ctor[c] = x]
  /\ UNCHANGED <<tables, objects, delayed, upload, dispatch, exec, call, meta,
                 cleanup, put>>

\* a worker calls MinIOClient(): self.client = Minio(...), then
\* _ensure_buckets_exist starts with the first bucket
Construct(c) ==
  /\ ensure.ctor[c].pc \in {"idle", "done", "raised"}
  /\ ensure.constructed < MaxConstructs
  /\ ensure' = [ensure EXCEPT !.ctor[c] = [pc |-> "check", i |-> 1],
                              !.constructed = @ + 1]
  /\ UNCHANGED <<tables, minio, delayed, upload, dispatch, exec, faults, call,
                 meta, cleanup, put>>

\* if not self.client.bucket_exists(bucket_name):
CheckBucket(c) ==
  LET x == ensure.ctor[c]
      bucket_name == required_bucket_list[x.i]
  IN
  /\ x.pc = "check"
  /\ \/ /\ IF bucket_name \in buckets
           THEN EnsureStep(c, NextBucket(x))
           ELSE EnsureStep(c, [x EXCEPT !.pc = "make"])
        /\ NoFault
     \/ \* the store answers with an S3Error
        /\ CanFault /\ Fault
        /\ EnsureStep(c, OnS3Error(x))
  /\ UNCHANGED buckets

\* self.client.make_bucket(bucket_name): the store refuses a name that
\* exists (BucketAlreadyOwnedByYou, an S3Error)
MakeBucket(c) ==
  LET x == ensure.ctor[c]
      bucket_name == required_bucket_list[x.i]
  IN
  /\ x.pc = "make"
  /\ \/ /\ bucket_name \notin buckets
        /\ buckets' = buckets \cup {bucket_name}
        /\ ensure' = [ensure EXCEPT !.ctor[c] = NextBucket(x),
                                    !.made[bucket_name] = @ + 1]
        /\ UNCHANGED <<tables, objects, delayed, upload, dispatch, exec, call,
                       meta, cleanup, put>>
        /\ NoFault
     \/ /\ bucket_name \in buckets
        /\ ensure' = [ensure EXCEPT !.ctor[c] = OnS3Error(x),
                                    !.refused = @ + 1]
        /\ UNCHANGED <<tables, minio, delayed, upload, dispatch, exec, call,
                       meta, cleanup, put>>
        /\ NoFault
     \/ /\ CanFault /\ Fault
        /\ EnsureStep(c, OnS3Error(x))
        /\ UNCHANGED buckets

NextBuckets ==
  \/ \E c \in 1..MaxWorkers : Construct(c)
  \/ \E c \in 1..MaxWorkers : CheckBucket(c)
  \/ \E c \in 1..MaxWorkers : MakeBucket(c)

SpecBuckets == InitBuckets /\ [][NextBuckets]_vars

\* ------------------------ tasks.py, cleanup_temp_files_task on its own
MaxItems == 2   \* names of entries in each temporary directory
MaxRuns == 2    \* runs of cleanup_temp_files_task in one behaviour

CutoffHours == 24       \* timedelta(hours=24)
PlaceholderHours == 1   \* timedelta(hours=1)  # Placeholder

\* what a name in a temporary directory can be: a plain file, or a
\* directory that is 1, 23, 25 or 48 hours old
Entries ==
  {[isdir |-> FALSE, age |-> 48]}
    \cup {[isdir |-> TRUE, age |-> a] : a \in {1, 23, 25, 48}}

ItemKeys == {<<d, n>> : d \in 1..Len(temp_dirs), n \in 1..MaxItems}

InitCleanup ==
  /\ Video = <<>>
  /\ ProcessingTask = <<>>
  /\ ProcessedFrame = <<>>
  /\ DetectedObject = <<>>
  /\ buckets = {}
  /\ objects = {}
  /\ delayed = <<>>
  /\ upload = [v \in VideoIds |-> "idle"]
  /\ delivered = 0
  /\ issued = 0
  /\ exec = [s \in ExecSlots |-> IdleExec]
  /\ faults = 0
  /\ call = NoCall
  /\ meta = NoMeta
  /\ ensure = NoEnsure
  /\ put = NoPut
  /\ \E present \in SUBSET ItemKeys :
       \E items \in [present -> Entries] :
         cleanup = [NoCleanup EXCEPT !.items = items]

\* for item in os.listdir(temp_dir), for the two directories in turn
RECURSIVE Listing(_, _, _)
Listing(items, d, n) ==
  IF d > Len(temp_dirs) THEN <<>>
  ELSE IF n > MaxItems THEN Listing(items, d + 1, 1)
  ELSE IF <<d, n>> \in DOMAIN items
       THEN <<(<<d, n>>)>> \o Listing(items, d, n + 1)
       ELSE Listing(items, d, n + 1)

\* dir_time = timezone.now() - timedelta(hours=1)  # Placeholder
DirTime(now, entry) == now - PlaceholderHours

CleanupStep(c) ==
  /\ cleanup' = c
  /\ UNCHANGED <<tables, minio, delayed, upload, dispatch, exec, faults, call,
                 meta, ensure, put>>

\* the beat schedule or a caller starts cleanup_temp_files_task
StartCleanup ==
  /\ cleanup.pc \in {"idle", "done"}
  /\ cleanup.runs < MaxRuns
  /\ CleanupStep([cleanup EXCEPT !.pc = "scan",
                                 !.before = cleanup.items,
                                 !.todo = Listing(cleanup.items, 1, 1),
                                 !.runs = @ + 1])

\* one turn of the inner loop: if os.path.isdir(item_path): ...
\* if dir_time < cutoff_time: shutil.rmtree(item_path)
CleanItem ==
  LET item == Head(cleanup.todo)
      entry == cleanup.items[item]
      now == 0
      cutoff_time == now - CutoffHours
      dir_time == DirTime(now, entry)
      rest == Tail(cleanup.todo)
      c == [cleanup EXCEPT !.todo = rest,
                           !.pc = IF rest = <<>> THEN "done" ELSE "scan"]
  IN
  /\ cleanup.pc = "scan"
  /\ cleanup.todo # <<>>
  /\ IF entry.isdir /\ dir_time < cutoff_time
     THEN CleanupStep([c EXCEPT !.items =
                         [k \in DOMAIN cleanup.items \ {item} |->
                            cleanup.items[k]]])
     ELSE CleanupStep(c)

\* both directories are empty: the loops end at once
EndCleanup ==
  /\ cleanup.pc = "scan"
  /\ cleanup.todo = <<>>
  /\ CleanupStep([cleanup EXCEPT !.pc = "done"])

NextCleanup ==
  \/ StartCleanup
  \/ CleanItem
  \/ EndCleanup

SpecCleanup == InitCleanup /\ [][NextCleanup]_vars

\* ---------------------- minio_client.py, MinIOClient.upload_file on its own
MaxPuts == 2    \* calls of upload_file in one behaviour

\* the base names of the local files
Basenames == {"video.mp4", "frame_000000.jpg"}

\* the object_name argument: omitted, the base name of a local file, or
\* another name
ObjectNames == {"None"} \cup Basenames \cup {"metadata/1.json"}

\* the bucket_name argument: omitted, or a bucket
BucketNames == {"None", "processed-videos", "extracted-frames"}

InitUploadFile ==
  /\ Video = <<>>
  /\ ProcessingTask = <<>>
  /\ ProcessedFrame = <<>>
  /\ DetectedObject = <<>>
  /\ buckets = required_buckets
  /\ objects = {}
  /\ delayed = <<>>
  /\ upload = [v \in VideoIds |-> "idle"]
  /\ delivered = 0
  /\ issued = 0
  /\ exec = [s \in ExecSlots |-> IdleExec]
  /\ faults = 0
  /\ call = NoCall
  /\ meta = NoMeta
  /\ ensure = NoEnsure
  /\ cleanup = NoCleanup
  /\ put = NoPut

\* bucket_name = bucket_name or self.default_bucket
BucketOrDefault(bucket_name) ==
  IF bucket_name = "None" THEN "default" ELSE bucket_name

\* object_name = object_name or os.path.basename(file_path)
ObjectNameOrBasename(object_name, basename) ==
  IF object_name = "None" THEN basename ELSE object_name

PutStep(u) ==
  /\ put' = u
  /\ UNCHANGED <<tables, minio, delayed, upload, dispatch, exec, call, meta,
                 ensure, cleanup>>

\* a caller invokes upload_file(file_path, bucket_name, object_name)
CallUploadFile ==
  /\ put.pc \in {"none", "returned", "raised"}
  /\ put.calls < MaxPuts
  /\ \E basename \in Basenames, exists \in BOOLEAN,
        bucket_name \in BucketNames, object_name \in ObjectNames :
       PutStep([put EXCEPT !.pc = "u_exists", !.basename = basename,
                           !.exists = exists, !.bucket_name = bucket_name,
                           !.object_name = object_name, !.calls = @ + 1,
                           !.result = <<>>, !.raising = ""])
  /\ NoFault

\* if not os.path.exists(file_path): raise FileNotFoundError
CheckFileExists ==
  /\ put.pc = "u_exists"
  /\ IF put.exists
     THEN PutStep([put EXCEPT !.pc = "u_put"])
     ELSE PutStep([put EXCEPT !.pc = "raised",
                              !.raising = "FileNotFoundError"])
  /\ NoFault

\* the defaults, the uuid suffix, self.client.fput_object(...) and the
\* return of f"{bucket_name}/{object_name}"; an S3Error is raised again
FputObject ==
  /\ put.pc = "u_put"
  /\ \/ /\ \E suffix \in 1..MaxSuffix :
             LET key == UploadFileKeyNamed(
                          BucketOrDefault(put.bucket_name),
                          ObjectNameOrBasename(put.object_name, put.basename),
                          put.basename, suffix)
             IN PutStep([put EXCEPT !.stored = @ \cup {key},
                                    !.result = key,
                                    !.pc = "returned"])
        /\ NoFault
     \/ /\ CanFault /\ Fault
        /\ PutStep([put EXCEPT !.pc = "raised", !.raising = "S3Error"])

NextUploadFile ==
  \/ CallUploadFile
  \/ CheckFileExists
  \/ FputObject

SpecUploadFile == InitUploadFile /\ [][NextUploadFile]_vars

\* ------------------------------------------------------------------ claims
Terminal == {"completed", "failed"}

\* the execution on worker s takes a step
Steps(s) == exec'[s] # exec[s]

\* the execution on worker s ends by raising out of its except block: the
\* cause is the exception the block caught
EndsRaising(s) ==
  /\ exec[s].pc \in {"except", "except_video"}
  /\ exec'[s].pc = "raised"

\* C1: once the persisted status of a Job is completed or failed, no step
\* changes it.
C1_JobStatusTerminal ==
  [][\A k \in 1..Len(ProcessingTask) :
       ProcessingTask[k].status \in Terminal
         => ProcessingTask'[k].status = ProcessingTask[k].status]_vars

\* C2: the persisted status of a Video changes only along
\* pending -> processing, processing -> completed, processing -> failed.
C2_VideoStatusTransitions ==
  [][\A v \in DOMAIN Video :
       \/ Video'[v].status = Video[v].status
       \/ <<Video[v].status, Video'[v].status>> \in
            { <<"pending", "processing">>, <<"processing", "completed">>,
              <<"processing", "failed">> }]_vars

\* C3: in every observable state a completed video_processing Job implies
\* that its Video is completed with processing_completed_at set.
C3_JobCompletedImpliesVideoCompleted ==
  \A k \in 1..Len(ProcessingTask) :
    (ProcessingTask[k].task_type = "video_processing"
       /\ ProcessingTask[k].status = "completed")
      => /\ Video[ProcessingTask[k].video].status = "completed"
         /\ Video[ProcessingTask[k].video].processing_completed_at # "None"

C5_OneJobPerExecutionId ==
  [][/\ \A k1, k2 \in 1..Len(ProcessingTask') :
          k1 # k2 => ProcessingTask'[k1].celery_task_id
                       # ProcessingTask'[k2].celery_task_id
     /\ \A s \in ExecSlots :
          (exec[s].pc = "create" /\ Steps(s)
             /\ ~TaskIdFree(exec[s].request_id))
            => /\ ProcessingTask' = ProcessingTask
               /\ exec'[s].pc = "except"
               /\ faults' = faults => exec'[s].e = "IntegrityError"
     /\ \A s \in ExecSlots :
          (Steps(s) /\ "task_record" \notin exec'[s].locals)
            => ProcessingTask' = ProcessingTask]_vars

\* an execution was delivered with an execution id that already had a Job
\* row and failed with the duplicate error
C5_Witness ==
  \E s \in ExecSlots :
    /\ exec[s].pc \in {"except", "except_video", "raised"}
    /\ exec[s].e = "IntegrityError"
    /\ "task_record" \notin exec[s].locals
    /\ ~TaskIdFree(exec[s].request_id)

\* C6: no two ProcessedFrame rows share (video, frame_number); rows are never
\* changed; creating a row for a pair that exists raises and adds no row.
C6_OneFramePerPair ==
  [][/\ \A k1, k2 \in 1..Len(ProcessedFrame') :
          k1 # k2 => <<ProcessedFrame'[k1].video,
                       ProcessedFrame'[k1].frame_number>>
                     # <<ProcessedFrame'[k2].video,
                         ProcessedFrame'[k2].frame_number>>
     /\ \A k \in 1..Len(ProcessedFrame) :
          ProcessedFrame'[k] = ProcessedFrame[k]
     /\ \A s \in ExecSlots :
          LET x == exec[s] IN
          (x.pc = "p_frames" /\ x.i <= Len(x.results) /\ Steps(s)
             /\ ~FramePairFree(x.video_id, x.results[x.i].frame_number))
            => /\ ProcessedFrame' = ProcessedFrame
               /\ exec'[s].pc = "except"]_vars

\* a second video-processing execution hit the unique constraint of
\* ProcessedFrame
C6_Witness ==
  /\ delivered = 2
  /\ Len(ProcessedFrame) >= 1
  /\ \E s \in ExecSlots :
       /\ exec[s].pc \in {"except", "except_video", "raised"}
       /\ exec[s].kind = "video_processing"
       /\ exec[s].e = "IntegrityError"
       /\ "task_record" \in exec[s].locals

\* C7 as claimed: a Video with a non-empty processed_minio_key is completed.
C7_ProcessedKeyOnlyWhenCompleted ==
  \A v \in DOMAIN Video :
    Video[v].processed_minio_key # <<>> => Video[v].status = "completed"

\* C8: the progress of a Job row never decreases, lies in 0..100 and is 100
\* whenever the Job is completed.
C8_Progress ==
  [][\A k \in 1..Len(ProcessingTask') :
       /\ ProcessingTask'[k].progress \in 0..100
       /\ ProcessingTask'[k].status = "completed"
            => ProcessingTask'[k].progress = 100
       /\ k <= Len(ProcessingTask)
            => ProcessingTask'[k].progress >= ProcessingTask[k].progress]_vars

\* a video-processing Job and a frame-extraction Job are completed at 100
C8_Witness ==
  \E k1, k2 \in 1..Len(ProcessingTask) :
    /\ ProcessingTask[k1].task_type = "video_processing"
    /\ ProcessingTask[k2].task_type = "frame_extraction"
    /\ ProcessingTask[k1].status = "completed"
    /\ ProcessingTask[k2].status = "completed"
    /\ ProcessingTask[k1].progress = 100
    /\ ProcessingTask[k2].progress = 100

C10_OutOfRangeSkipped ==
  \A s \in ExecSlots :
    LET x == exec[s] IN
    (x.kind = "object_detection" /\ x.pc \in {"returned", "raised"}
       /\ x.frame_numbers_given /\ "task_record" \in x.locals
       /\ faults = 0)
      => /\ ProcessingTask[x.task_record.pk].status = "completed"
         /\ \A p \in 1..Len(x.frame_numbers) :
              LET n == x.frame_numbers[p]
                  file == Video[x.video_id].video_file
                  rows == {k \in 1..Len(DetectedObject) :
                             /\ DetectedObject[k].video = x.video_id
                             /\ DetectedObject[k].frame_number = n}
              IN IF n < Len(file) THEN Cardinality(rows) >= file[n + 1]
                                  ELSE rows = {}

\* C11 as claimed: an execution on whose selected frame the detector raised
\* is not aborted: it never enters its except block, and when it has ended
\* it has returned with its Job completed.
C11_DetectorErrorTolerated ==
  \A s \in ExecSlots :
    LET x == exec[s] IN
    x.e = "DetectorError"
      => /\ x.pc \notin {"except", "except_video", "raised"}
         /\ ~Running(x)
              => /\ x.pc = "returned"
                 /\ ProcessingTask[x.task_record.pk].status = "completed"

\* the indices below bound that are multiples of k
Multiples(k, bound) == {n \in 0..(bound - 1) : n % k = 0}

\* the sequence seq lists the members of set, each once, in increasing order
ListsIncreasing(seq, set) ==
  /\ Len(seq) = Cardinality(set)
  /\ {seq[p] : p \in 1..Len(seq)} = set
  /\ \A p \in 1..(Len(seq) - 1) : seq[p] < seq[p + 1]

\* C12: when decoding fails at frame stop before the end of the file,
\* process_video stops at that frame and returns, without raising; what it
\* returns are the results of exactly the selected frames below stop, in
\* order, and no result collected so far is dropped by the step that stops.
C12_DecodeFailureReturnsPartial ==
  [][(call.fn = "process_video" /\ call.pc = "loop"
        /\ call.frame_number = call.stop /\ call.stop < Len(call.file))
       => /\ call'.pc = "returned"
          /\ call'.out = call.out
          /\ call'.out = ProcessVideo(call.file, call.frame_interval, call.stop)
          /\ ListsIncreasing([p \in 1..Len(call'.out) |->
                                call'.out[p].frame_number],
                             Multiples(call.frame_interval, call.stop))
          /\ \A p \in 1..Len(call'.out) :
               call'.out[p].object_count
                 = call.file[call'.out[p].frame_number + 1]]_vars

\* process_video has returned after a decode failure in the middle of the
\* file, with the results of several frames
C12_Witness ==
  /\ call.fn = "process_video" /\ call.pc = "returned"
  /\ call.stop < Len(call.file) /\ call.stop >= 3
  /\ call.frame_interval = 2
  /\ Len(call.out) = 2

C14_OtherKindsKeepVideo ==
  [][\A s \in ExecSlots :
       (Steps(s) /\ exec'[s].kind \in {"frame_extraction", "object_detection"})
         => Video' = Video]_vars

\* a frame-extraction execution has failed and an object-detection execution
\* has failed, both with their Job rows failed; the Video is still pending
C14_Witness ==
  \E s, t \in ExecSlots :
    /\ exec[s].kind = "frame_extraction" /\ exec[t].kind = "object_detection"
    /\ exec[s].pc = "raised" /\ exec[t].pc = "raised"
    /\ "task_record" \in exec[s].locals /\ "task_record" \in exec[t].locals
    /\ ProcessingTask[exec[s].task_record.pk].status = "failed"
    /\ ProcessingTask[exec[t].task_record.pk].status = "failed"
    /\ Video[exec[s].video_id].status = "pending"

\* C15 as claimed: an execution that has not created its Job row changes no
\* row of any table, and it does not end by returning: the error reaches
\* the dispatcher.
C15_FailureBeforeJobChangesNothing ==
  [][\A s \in ExecSlots :
       (Steps(s) /\ "task_record" \notin exec'[s].locals)
         => /\ tables' = tables
            /\ exec'[s].pc # "returned"]_vars

\* C16: an execution owns the Job row it created, which is the row its
\* task_record refers to from the creation on; a step of an execution
\* changes no Job row but its own, and no step changes or removes a
\* ProcessedFrame or DetectedObject row that exists.
C16_OwnRowsOnly ==
  [][\A s \in ExecSlots :
       Steps(s) =>
         /\ Len(ProcessingTask') > Len(ProcessingTask)
              => /\ "task_record" \notin exec[s].locals
                 /\ "task_record" \in exec'[s].locals
                 /\ exec'[s].task_record.pk = Len(ProcessingTask')
                 /\ Len(ProcessingTask') = Len(ProcessingTask) + 1
         /\ ("task_record" \in exec[s].locals
               /\ "task_record" \in exec'[s].locals)
              => exec'[s].task_record.pk = exec[s].task_record.pk
         /\ \A k \in 1..Len(ProcessingTask) :
              ProcessingTask'[k] # ProcessingTask[k]
                => /\ "task_record" \in exec[s].locals
                   /\ exec[s].task_record.pk = k
         /\ Len(ProcessedFrame') >= Len(ProcessedFrame)
         /\ \A k \in 1..Len(ProcessedFrame) :
              ProcessedFrame'[k] = ProcessedFrame[k]
         /\ Len(DetectedObject') >= Len(DetectedObject)
         /\ \A k \in 1..Len(DetectedObject) :
              DetectedObject'[k] = DetectedObject[k]]_vars

\* two executions on the same Video run at the same time, each with its own
\* Job row; one has saved its Job as completed, the Job of the other is
\* still running
C16_Witness ==
  \E s, t \in ExecSlots :
    /\ s # t
    /\ Running(exec[s]) /\ Running(exec[t])
    /\ "task_record" \in exec[s].locals /\ "task_record" \in exec[t].locals
    /\ exec[s].video_id = exec[t].video_id
    /\ exec[s].task_record.pk # exec[t].task_record.pk
    /\ ProcessingTask[exec[s].task_record.pk].status = "completed"
    /\ ProcessingTask[exec[t].task_record.pk].status = "running"
    /\ Len(ProcessedFrame) >= 1

\* C17 as claimed: every Job row that is created eventually has status
\* completed or failed, given that every worker keeps running its execution.
C17_JobEventuallyTerminal ==
  \A k \in 1..MaxExec :
    [](Len(ProcessingTask) >= k
         => <>(/\ Len(ProcessingTask) >= k
               /\ ProcessingTask[k].status \in Terminal))

\* C18: every Job row has status running, completed or failed and a
\* started_at; a Job row appears only by the create of a running execution,
\* in status running, and the upload that enqueues the job creates none.
C18_JobNeverPending ==
  [][/\ \A k \in 1..Len(ProcessingTask') :
          /\ ProcessingTask'[k].status \in {"running", "completed", "failed"}
          /\ ProcessingTask'[k].started_at # "None"
     /\ Len(ProcessingTask') > Len(ProcessingTask)
          => /\ ProcessingTask'[Len(ProcessingTask')].status = "running"
             /\ \E s \in ExecSlots : exec[s].pc = "create" /\ Steps(s)
     /\ delayed' # delayed => ProcessingTask' = ProcessingTask]_vars

\* a video was uploaded and its job enqueued while no Job row existed; an
\* execution has since created its Job row, which is running
C18_Witness ==
  /\ delayed # <<>>
  /\ Len(ProcessingTask) = 1
  /\ ProcessingTask[1].status = "running"
  /\ ProcessingTask[1].started_at = "now"
  /\ \E s \in ExecSlots :
       exec[s].pc = "p_start" /\ exec[s].task_record.pk = 1

\* the number of calls of delay for video v in the queue q
EnqueuedFor(q, v) == Cardinality({p \in 1..Len(q) : q[p] = v})

\* C19 as claimed: a job is enqueued for a Video only after its row is
\* persisted, never more than once, and once the upload request that
\* persisted the row is over, exactly one job is enqueued for it; the request
\* ends whether or not any execution has started.
C19_OneJobPerUpload ==
  [][\A v \in VideoIds :
       /\ EnqueuedFor(delayed', v) > EnqueuedFor(delayed, v)
            => v \in DOMAIN Video
       /\ EnqueuedFor(delayed', v) <= 1
       /\ (v \in DOMAIN Video' /\ upload'[v] # "saved")
            => EnqueuedFor(delayed', v) = 1]_vars

\* the frame numbers of what a call has collected so far
FramesOf(c) ==
  [p \in 1..Len(c.out) |->
     IF c.fn = "process_video" THEN c.out[p].frame_number ELSE c.out[p]]

\* C20: at every point of a call of process_video or extract_frames with
\* interval k, the frames selected so far are the multiples of k below the
\* number of frames read, each once and in increasing order; when every frame
\* decodes and the call has returned, they are the multiples of k below the
\* frame count.
C20_SelectsMultiples ==
  call.pc # "none"
    => /\ ListsIncreasing(FramesOf(call),
                          Multiples(call.frame_interval, call.frame_number))
       /\ (call.pc = "returned" /\ call.stop = Len(call.file))
            => /\ call.frame_number = Len(call.file)
               /\ FramesOf(call)
                    = SelectFrames(call.file, call.frame_interval,
                                   Len(call.file), 0)
               /\ \A n \in 0..(Len(call.file) - 1) :
                    (\E p \in 1..Len(call.out) : FramesOf(call)[p] = n)
                      <=> (\E m \in 0..Len(call.file) :
                             n = m * call.frame_interval)

\* extract_frames has returned frames 0 and 3 of a six-frame file for
\* interval 3
C20_Witness ==
  /\ call.fn = "extract_frames" /\ call.pc = "returned"
  /\ call.frame_interval = 3
  /\ Len(call.file) = 6 /\ call.stop = 6
  /\ FramesOf(call) = <<0, 3>>

\* C21 as claimed: every object in bucket extracted-frames is named
\* frame_<frame number>.jpg with nothing else in the name, so the key of
\* frame n is determined by n.
C21_FrameObjectName ==
  \A o \in objects :
    o[1] = "extracted-frames"
      => \E n \in 0..MaxFrames :
           o = <<"extracted-frames", <<"frame", n>>, NoSuffix>>

\* C22 as claimed: an object-detection execution that created its Job row
\* and met no failure of a store, file or detector call returns, and the
\* processed_frames of its summary is the number of requested indices that
\* name a frame of the file, the only ones that are decoded and detected.
C22_ProcessedFramesCount ==
  \A s \in ExecSlots :
    LET x == exec[s] IN
    (x.kind = "object_detection" /\ x.pc \in {"returned", "raised"}
       /\ "task_record" \in x.locals /\ faults = 0)
      => /\ x.pc = "returned"
         /\ x.processed_frames =
              Cardinality({p \in 1..Len(x.frame_numbers) :
                             x.frame_numbers[p]
                               < Len(Video[x.video_id].video_file)})

\* C23 as claimed: the rows of a selected frame are stored before detection
\* starts on a later frame, so when process_video has produced the results
\* of its frames, the ProcessedFrame rows of all but the last of them are
\* already stored.
C23_RowsStoredIncrementally ==
  [][\A s \in ExecSlots :
       (exec[s].pc = "p_process" /\ exec'[s].pc = "p_frames")
         => \A p \in 1..(Len(exec'[s].results) - 1) :
              ~FramePairFree(exec[s].video_id,
                             exec'[s].results[p].frame_number)]_vars

\* C24 as claimed: whenever a call of upload_video_metadata or
\* get_video_metadata is over, returned or raised, no temporary file exists.
C24_TempFileRemoved ==
  MetaOver(meta) => DOMAIN meta.files = {}

\* C25: however many constructors run, one after another or at the same
\* time, no required bucket is made more than once, a bucket that existed is
\* never made and never removed, no constructor is left by an error, and
\* when every constructor that started has returned and the store answered
\* every call, each required bucket exists and each missing one was made
\* exactly once.
C25_ProvisioningIdempotent ==
  /\ \A b \in required_buckets :
       /\ ensure.made[b] <= 1
       /\ b \in ensure.initial => (ensure.made[b] = 0 /\ b \in buckets)
  /\ \A c \in 1..MaxWorkers : ensure.ctor[c].pc # "raised"
  /\ (/\ ensure.constructed >= 1
      /\ \A c \in 1..MaxWorkers : ensure.ctor[c].pc \in {"idle", "done"}
      /\ faults = 0)
       => /\ required_buckets \subseteq buckets
          /\ \A b \in required_buckets \ ensure.initial : ensure.made[b] = 1

\* two constructors ran at the same time on a store without the required
\* buckets; one of them was refused a bucket the other had just made; both
\* have returned and a third construction has run since
C25_Witness ==
  /\ ensure.initial = {}
  /\ ensure.constructed = MaxConstructs
  /\ ensure.refused >= 1
  /\ \A c \in 1..MaxWorkers : ensure.ctor[c].pc = "done"
  /\ buckets = required_buckets
  /\ faults = 0

\* C26: get_video_metadata that returns while the store answered every call
\* gives a dictionary equal to the one of the last upload_video_metadata
\* that stored a blob for the same video id, for every dictionary.
C26_RoundTrip ==
  (/\ meta.fn = "get_video_metadata"
   /\ meta.pc = "returned"
   /\ faults = 0
   /\ meta.video_id \in DOMAIN meta.written)
    => meta.result = meta.written[meta.video_id]

\* whether the value is built of the types json.load gives back: strings,
\* numbers, lists, and dicts with string keys
RECURSIVE JsonNative(_)
JsonNative(val) ==
  CASE val.t \in {"int", "str"} -> TRUE
    [] val.t = "list" -> \A k \in 1..Len(val.v) : JsonNative(val.v[k])
    [] val.t = "dict" ->
         \A k \in 1..Len(val.v) :
           /\ val.v[k][1].t = "str"
           /\ JsonNative(val.v[k][2])
    [] OTHER -> FALSE

\* C26, amended: the same, for every dictionary built of strings, numbers,
\* lists and dicts with string keys.
C26_RoundTripJsonNative ==
  (/\ meta.fn = "get_video_metadata"
   /\ meta.pc = "returned"
   /\ faults = 0
   /\ meta.video_id \in DOMAIN meta.written
   /\ JsonNative(meta.written[meta.video_id]))
    => meta.result = meta.written[meta.video_id]

\* a dictionary with a list in it was uploaded for video 2 and read back
C26_Witness ==
  /\ meta.fn = "get_video_metadata"
  /\ meta.pc = "returned"
  /\ faults = 0
  /\ meta.video_id = 2
  /\ 2 \in DOMAIN meta.written
  /\ meta.written[2] = PyDict(<< <<PyStr("tags"),
                                   PyList(<<PyStr("a"), PyInt("1")>>)>> >>)
  /\ meta.result = meta.written[2]

\* C27: when detect_objects_in_frames_task is called without frame numbers,
\* the frames it sets out to detect are all the frames of the video.
C27_NoneMeansAllFrames ==
  [][\A s \in ExecSlots :
       (/\ exec[s].pc = "d_detect"
        /\ exec'[s].pc # "d_detect"
        /\ ~exec[s].frame_numbers_given
        /\ faults' = faults)
         => exec'[s].frame_numbers =
              [k \in 1..Len(exec[s].video.video_file) |-> k - 1]]_vars

\* C28: when a run of cleanup_temp_files_task has ended, every directory
\* that was older than 24 hours when it started is gone and every younger
\* one is still there.
C28_OldDirectoriesRemoved ==
  cleanup.pc = "done"
    => \A k \in DOMAIN cleanup.before :
         cleanup.before[k].isdir
           => (k \notin DOMAIN cleanup.items
                 <=> cleanup.before[k].age > CutoffHours)

\* C29: a Video with status completed has an empty error_message.
C29_CompletedWithoutError ==
  \A v \in 1..Len(Video) :
    Video[v].status = "completed" => Video[v].error_message = ""

\* C30: once no execution is running on a Video, objects_detected of each
\* of its ProcessedFrame rows is the number of DetectedObject rows of the
\* same video and frame number.
C30_CountsMatchDetections ==
  \A v \in 1..Len(Video) :
    (\A s \in ExecSlots : ~(Running(exec[s]) /\ exec[s].video_id = v))
      => \A p \in 1..Len(ProcessedFrame) :
           ProcessedFrame[p].video = v
             => ProcessedFrame[p].objects_detected =
                  Cardinality({d \in 1..Len(DetectedObject) :
                     /\ DetectedObject[d].video = v
                     /\ DetectedObject[d].frame_number =
                          ProcessedFrame[p].frame_number})

\* C31: when an object-detection execution that created its Job row and met
\* no failure of a store, file or detector call has ended, the
\* DetectedObject rows of each requested frame of the video are those of one
\* detection pass on that frame: as many rows as the frame has objects.
C31_DetectionsOfOnePass ==
  \A s \in ExecSlots :
    LET x == exec[s]
        file == Video[x.video_id].video_file
    IN
    (x.kind = "object_detection" /\ x.pc \in {"returned", "raised"}
       /\ "task_record" \in x.locals /\ faults = 0)
      => \A p \in 1..Len(x.frame_numbers) :
           x.frame_numbers[p] < Len(file)
             => Cardinality({d \in 1..Len(DetectedObject) :
                   /\ DetectedObject[d].video = x.video_id
                   /\ DetectedObject[d].frame_number = x.frame_numbers[p]})
                  = ProcessFrame(file, x.frame_numbers[p]).object_count

\* C32: whenever a Video has status completed, one of its Job rows is a
\* video_processing Job with status completed.
C32_CompletedVideoHasCompletedJob ==
  \A v \in 1..Len(Video) :
    Video[v].status = "completed"
      => \E k \in 1..Len(ProcessingTask) :
           /\ ProcessingTask[k].video = v
           /\ ProcessingTask[k].task_type = "video_processing"
           /\ ProcessingTask[k].status = "completed"

\* two executions ran on one Video: one failed, the other completed it
C32_Witness ==
  /\ Len(Video) >= 1
  /\ Video[1].status = "completed"
  /\ \E k \in 1..Len(ProcessingTask) :
       /\ ProcessingTask[k].video = 1
       /\ ProcessingTask[k].task_type = "video_processing"
       /\ ProcessingTask[k].status = "completed"
  /\ \E k \in 1..Len(ProcessingTask) :
       /\ ProcessingTask[k].video = 1
       /\ ProcessingTask[k].status = "failed"

\* C33: when upload_file has returned, an object name that was given is
\* the name the object is stored under and the name in the returned key,
\* without suffix, also when it is the base name of the local file; a
\* suffix is there when the name was omitted.
C33_GivenNameKept ==
  put.pc = "returned"
    => /\ put.result \in put.stored
       /\ put.object_name # "None"
            => put.result = <<BucketOrDefault(put.bucket_name),
                              put.object_name, NoSuffix>>
       /\ put.object_name = "None"
            => /\ put.result[2] = put.basename
               /\ put.result[3] # NoSuffix

====
